---- MODULE Spec2Model ----
(***************************************************************************)
(* Bollinger band monitor: the indicator functions and the band-crossing   *)
(* detector of technical_indicators.py, and the per-file loop of           *)
(* bollinger_band_monitor.py.                                              *)
(*                                                                         *)
(* Numbers.  Prices are integers.  A rolling mean or standard deviation is *)
(* kept exactly: a Bollinger band over n closes with sum s and             *)
(* q = n*sum(c^2) - s^2 is the real number (s + k*sqrt(n*q/(n-1)))/n, and  *)
(* every comparison with it is decided in integer arithmetic.  NaN is an   *)
(* explicit value; every comparison with NaN is false, as in IEEE 754.     *)
(* Dates are calendar dates written YYYYMMDD, the form the data files use. *)
(***************************************************************************)
EXTENDS Integers, Sequences, FiniteSets, TLC

VARIABLES
    data,              \* TechnicalIndicators.data: the bars, in file order
    called,            \* the method that has been called on the object
    months,            \* check_recent_bb_crossings: its argument
    cutoff_date,       \* check_recent_bb_crossings: local
    recent_data,       \* check_recent_bb_crossings: local
    recent_bb,         \* check_recent_bb_crossings: local
    events,            \* check_recent_bb_crossings: the list returned
    result,            \* the Series/DataFrame an indicator method returned
    raised,            \* the exception that left the method, or "none"
    pc,                \* monitor_bollinger_bands: where the run stands
    files,             \* loader.data_files: what each file holds, in order
    log_level,         \* monitor_bollinger_bands: its argument
    file_idx,          \* load_all_data: the file the generator is at
    total_files,       \* monitor_bollinger_bands: local
    files_processed,   \* monitor_bollinger_bands: local
    files_with_errors, \* monitor_bollinger_bands: local
    crossing_details,  \* monitor_bollinger_bands: the dict, in insertion order
    log,               \* the records handed to the logger
    tree,              \* the directories and files under root_dir
    stock_dirs,        \* _find_data_files: local
    data_files         \* _find_data_files: the list returned

tiVars == <<data, called, months, cutoff_date, recent_data, recent_bb, events,
            result, raised>>

monitorVars == <<pc, files, log_level, file_idx, total_files, files_processed,
                 files_with_errors, crossing_details, log>>

loaderVars == <<tree, stock_dirs, data_files>>

vars == <<tiVars, monitorVars, loaderVars>>

---------------------------------------------------------------------------
(* Program constants.                                                      *)
window == 20
std_dev == 3
rsi_period == 14
ma_period == 20
stoch_period == 14
d_window == 3

(* Bounds of the model.                                                    *)
MaxBars == 22
MaxMonths == 2

---------------------------------------------------------------------------
(* Calendar dates, YYYYMMDD.                                               *)
Year(d) == d \div 10000
Month(d) == (d \div 100) % 100
Day(d) == d % 100
MkDate(y, m, dd) == y * 10000 + m * 100 + dd

IsLeap(y) == (y % 4 = 0 /\ y % 100 # 0) \/ y % 400 = 0

DaysInMonth(y, m) ==
    IF m = 2 THEN (IF IsLeap(y) THEN 29 ELSE 28)
    ELSE IF m \in {4, 6, 9, 11} THEN 30 ELSE 31

(* The date k days before d, for 0 <= k <= 28.                             *)
Back(d, k) ==
    IF Day(d) > k THEN d - k
    ELSE LET y == IF Month(d) > 1 THEN Year(d) ELSE Year(d) - 1
             m == IF Month(d) > 1 THEN Month(d) - 1 ELSE 12
         IN  MkDate(y, m, DaysInMonth(y, m) + Day(d) - k)

(* n dates ending on last, stride days apart, ascending.                   *)
RECURSIVE DatesBack(_, _, _)
DatesBack(last, stride, n) ==
    IF n = 0 THEN << >>
    ELSE Append(DatesBack(Back(last, stride), stride, n - 1), last)

Min2(a, b) == IF a <= b THEN a ELSE b

(* Timestamp - pd.DateOffset(months=n): the month moves back n calendar   *)
(* months and the day of the month is kept, clamped to the last day of    *)
(* the target month.                                                       *)
SubMonthsNoClamp(d, n) ==
    LET t == Year(d) * 12 + (Month(d) - 1) - n
    IN  MkDate(t \div 12, (t % 12) + 1, Day(d))

SubMonths(d, n) ==
    LET t == Year(d) * 12 + (Month(d) - 1) - n
        y == t \div 12
        m == (t % 12) + 1
    IN  MkDate(y, m, Min2(Day(d), DaysInMonth(y, m)))

---------------------------------------------------------------------------
(* Real values that may be NaN.  A band value is NaN or the number          *)
(* (s + k*sqrt(n*q/(n-1)))/n: s/n is the rolling mean of n closes and      *)
(* sqrt(q/(n*(n-1))) their sample standard deviation (ddof = 1).            *)
NaN == [nan |-> TRUE]

Sgn(x) == IF x > 0 THEN 1 ELSE IF x < 0 THEN -1 ELSE 0

(* The sign of a - k*sqrt(nq/n1), for nq >= 0 and n1 > 0.                  *)
SignOfDiff(a, k, nq, n1) ==
    LET r == IF nq = 0 THEN 0 ELSE Sgn(k)
    IN  IF r = 0 THEN Sgn(a)
        ELSE IF r > 0
             THEN (IF a <= 0 THEN -1 ELSE Sgn(a * a * n1 - k * k * nq))
             ELSE (IF a >= 0 THEN 1 ELSE Sgn(k * k * nq - a * a * n1))

(* The sign of x - b for an integer x and a band value b that is not NaN.  *)
CmpBand(x, b) == SignOfDiff(b.n * x - b.s, b.k, b.n * b.q, b.n - 1)

(* x > b and x < b as the floating-point comparisons decide them: false    *)
(* whenever b is NaN.                                                      *)
GtNaNAsZero(x, b) == IF b.nan THEN x > 0 ELSE CmpBand(x, b) = 1

GtOrEqual(x, b) == ~b.nan /\ CmpBand(x, b) >= 0

Gt(x, b) == ~b.nan /\ CmpBand(x, b) = 1

LtWrongWay(x, b) == ~b.nan /\ CmpBand(x, b) = 1

Lt(x, b) == ~b.nan /\ CmpBand(x, b) = -1

(* The sign of a band value that is not NaN.                               *)
BandSign(b) == 0 - CmpBand(0, b)

---------------------------------------------------------------------------
(* Rolling windows over the close column.                                  *)
Closes(df) == [i \in 1..Len(df) |-> df[i].close]

RECURSIVE SumRange(_, _, _)
SumRange(xs, lo, hi) == IF lo > hi THEN 0 ELSE xs[hi] + SumRange(xs, lo, hi - 1)

RECURSIVE SumSqRange(_, _, _)
SumSqRange(xs, lo, hi) ==
    IF lo > hi THEN 0 ELSE xs[hi] * xs[hi] + SumSqRange(xs, lo, hi - 1)

(* close.rolling(n).mean() + k * close.rolling(n).std() at row i: NaN      *)
(* until n closes are in the window (and for n = 1, where std is NaN).     *)
Band(xs, i, n, k) ==
    IF i < n \/ n < 2 THEN NaN
    ELSE LET s == SumRange(xs, i - n + 1, i)
             ss == SumSqRange(xs, i - n + 1, i)
         IN  [nan |-> FALSE, n |-> n, s |-> s, q |-> n * ss - s * s, k |-> k]

(* bollinger_bands(window, std_dev): one row per bar, under the same index.*)
bollinger_bands(df, n, k) ==
    [i \in 1..Len(df) |->
        [date |-> df[i].date,
         BB_Upper |-> Band(Closes(df), i, n, k),
         BB_Lower |-> Band(Closes(df), i, n, 0 - k)]]

---------------------------------------------------------------------------
(* check_recent_bb_crossings.                                              *)
Max3(a, b, c) == IF a >= b /\ a >= c THEN a ELSE IF b >= c THEN b ELSE c

Min3(a, b, c) == IF a <= b /\ a <= c THEN a ELSE IF b <= c THEN b ELSE c

(* ((price - band) / band) * 100 in floating point: its sign when finite,  *)
(* +inf or -inf when the band is 0 and the price is not, NaN for 0/0 and   *)
(* for a NaN band.                                                         *)
DeviationSwapped(price, band) ==
    IF band.nan THEN [kind |-> "nan", sign |-> 0]
    ELSE LET num == 0 - CmpBand(price, band)
             den == BandSign(band)
         IN  IF den = 0
             THEN (IF num = 0 THEN [kind |-> "nan", sign |-> 0]
                              ELSE [kind |-> "inf", sign |-> num])
             ELSE [kind |-> "finite", sign |-> num * den]

Deviation(price, band) ==
    IF band.nan THEN [kind |-> "nan", sign |-> 0]
    ELSE LET num == CmpBand(price, band)
             den == BandSign(band)
         IN  IF den = 0
             THEN (IF num = 0 THEN [kind |-> "nan", sign |-> 0]
                              ELSE [kind |-> "inf", sign |-> num])
             ELSE [kind |-> "finite", sign |-> num * den]

(* df[df.index >= cutoff_date]: the rows kept, in their order.             *)
Mask(df, cutoff) == SelectSeq(df, LAMBDA r : r.date >= cutoff)

(* The events one pass of the loop body appends for row i.                 *)
BarEvents(bar, bb) ==
    LET max_price == Max3(bar.high, bar.open, bar.close)
        min_price == Min3(bar.low, bar.open, bar.close)
        above == IF Gt(max_price, bb.BB_Upper)
                 THEN << [date |-> bar.date, type |-> "Above upper band",
                          price |-> max_price, band_value |-> bb.BB_Upper,
                          deviation |-> Deviation(max_price, bb.BB_Upper),
                          description |-> <<bar.high, bar.open, bar.close>>] >>
                 ELSE << >>
        below == IF Lt(min_price, bb.BB_Lower)
                 THEN << [date |-> bar.date, type |-> "Below lower band",
                          price |-> min_price, band_value |-> bb.BB_Lower,
                          deviation |-> Deviation(min_price, bb.BB_Lower),
                          description |-> <<bar.low, bar.open, bar.close>>] >>
                 ELSE << >>
    IN  above \o below

(* for i in range(len(recent_data)): the events of rows 1..i, in the order *)
(* they are appended.                                                      *)
RECURSIVE Scan(_, _, _)
Scan(rd, rb, i) ==
    IF i = 0 THEN << >> ELSE Scan(rd, rb, i - 1) \o BarEvents(rd[i], rb[i])

(* events.sort(key=date, reverse=True): descending by date, stable.        *)
RECURSIVE InsertDesc(_, _)
InsertDesc(sorted, e) ==
    IF sorted = << >> THEN <<e>>
    ELSE IF Head(sorted).date >= e.date
         THEN <<Head(sorted)>> \o InsertDesc(Tail(sorted), e)
         ELSE <<e>> \o sorted

RECURSIVE SortDescFrom(_, _, _)
SortDescFrom(evs, i, acc) ==
    IF i > Len(evs) THEN acc ELSE SortDescFrom(evs, i + 1, InsertDesc(acc, evs[i]))

NoSort(evs) == evs

SortByDateDesc(evs) == SortDescFrom(evs, 1, << >>)

(* The bands the detector reads: bollinger_bands() with its defaults, over *)
(* the whole frame.                                                        *)
BandsOfRecent(df, cutoff, k) == bollinger_bands(Mask(df, cutoff), window, k)

BandsOfFrame(df, cutoff, k) == bollinger_bands(df, window, k)

(* self.data.index[-1]: IndexError on an empty frame.                      *)
IndexLastOrDefault(df) ==
    IF Len(df) = 0 THEN [raised |-> "none", value |-> 0]
    ELSE [raised |-> "none", value |-> df[Len(df)].date]

IndexLast(df) ==
    IF Len(df) = 0 THEN [raised |-> "IndexError", value |-> 0]
    ELSE [raised |-> "none", value |-> df[Len(df)].date]

(* The method's locals and outcome, with std_dev (a default of             *)
(* bollinger_bands) as k.                                                  *)
Crossings(df, m, k) ==
    IF IndexLast(df).raised # "none"
    THEN [raised |-> IndexLast(df).raised, cutoff_date |-> 0,
          recent_data |-> << >>, recent_bb |-> << >>, events |-> << >>]
    ELSE LET last_date == IndexLast(df).value
             cutoff == SubMonths(last_date, m)
             rd == Mask(df, cutoff)
             bb_data == BandsOfFrame(df, cutoff, k)
             rb == Mask(bb_data, cutoff)
         IN  IF Len(rb) < Len(rd)
             THEN [raised |-> "IndexError", cutoff_date |-> cutoff,
                   recent_data |-> rd, recent_bb |-> rb, events |-> << >>]
             ELSE [raised |-> "none", cutoff_date |-> cutoff, recent_data |-> rd,
                   recent_bb |-> rb,
                   events |-> SortByDateDesc(Scan(rd, rb, Len(rd)))]

check_recent_bb_crossings_wide(df, m) == Crossings(df, m, std_dev + 2)

check_recent_bb_crossings(df, m) == Crossings(df, m, std_dev)

---------------------------------------------------------------------------
(* Floating-point values of the other indicators: NaN, +inf/-inf, or the   *)
(* rational num/den with den > 0.  Division by zero does not raise in      *)
(* pandas arithmetic: x/0 is +inf or -inf and 0/0 is NaN.                  *)
RNaN == [kind |-> "nan"]

RInf(sg) == [kind |-> "inf", sign |-> sg]

Rat(nm, dn) == [kind |-> "num", num |-> nm, den |-> dn]

RDiv(a, b) ==
    IF a.kind = "nan" \/ b.kind = "nan" THEN RNaN
    ELSE IF a.kind = "inf"
         THEN (IF b.kind = "inf" THEN RNaN
               ELSE RInf(IF b.num < 0 THEN 0 - a.sign ELSE a.sign))
    ELSE IF b.kind = "inf" THEN Rat(0, 1)
    ELSE IF b.num = 0
         THEN (IF a.num = 0 THEN RNaN ELSE RInf(Sgn(a.num)))
    ELSE IF b.num > 0 THEN Rat(a.num * b.den, a.den * b.num)
    ELSE Rat(0 - a.num * b.den, 0 - a.den * b.num)

RAdd(a, b) ==
    IF a.kind = "nan" \/ b.kind = "nan" THEN RNaN
    ELSE IF a.kind = "inf"
         THEN (IF b.kind = "inf" /\ b.sign # a.sign THEN RNaN ELSE a)
    ELSE IF b.kind = "inf" THEN b
    ELSE Rat(a.num * b.den + b.num * a.den, a.den * b.den)

RNeg(a) ==
    IF a.kind = "nan" THEN a
    ELSE IF a.kind = "inf" THEN RInf(0 - a.sign)
    ELSE Rat(0 - a.num, a.den)

RSub(a, b) == RAdd(a, RNeg(b))

RMulInt(c, a) ==
    IF a.kind = "nan" THEN a
    ELSE IF a.kind = "inf" THEN (IF c = 0 THEN RNaN ELSE RInf(Sgn(c) * a.sign))
    ELSE Rat(c * a.num, a.den)

(* a <= c and a >= c for an integer c; false for NaN.                      *)
RLeqInt(a, c) ==
    a.kind # "nan" /\ (IF a.kind = "inf" THEN a.sign < 0 ELSE a.num <= c * a.den)

RGeqInt(a, c) ==
    a.kind # "nan" /\ (IF a.kind = "inf" THEN a.sign > 0 ELSE a.num >= c * a.den)

REqInt(a, c) == a.kind = "num" /\ a.num = c * a.den

(* xs.rolling(n).mean() at row i, for a column of integers.                *)
RollingMean(xs, i, n) == IF i < n THEN RNaN ELSE Rat(SumRange(xs, i - n + 1, i), n)

(* sma(period)                                                             *)
sma(df, period) == [i \in 1..Len(df) |-> RollingMean(Closes(df), i, period)]

(* ema(period) and macd(): ewm(adjust=False).mean() is seeded with the     *)
(* first close, so every row holds a number; the value itself is not       *)
(* modelled.                                                               *)
ema(df, period) == [i \in 1..Len(df) |-> "number"]

macd(df) ==
    [i \in 1..Len(df) |->
        [macd_line |-> "number", signal_line |-> "number",
         macd_histogram |-> "number"]]

(* rsi(period)                                                             *)
Delta(xs, i) == IF i = 1 THEN RNaN ELSE Rat(xs[i] - xs[i - 1], 1)

(* delta.where(delta > 0, 0) and -delta.where(delta < 0, 0): a NaN delta   *)
(* fails either test and is replaced by 0.                                 *)
GainAt(xs, i) ==
    LET dl == Delta(xs, i)
    IN  IF dl.kind = "num" /\ dl.num > 0 THEN dl.num ELSE 0

LossAt(xs, i) ==
    LET dl == Delta(xs, i)
    IN  IF dl.kind = "num" /\ dl.num < 0 THEN 0 - dl.num ELSE 0

(* rs = gain / loss; 100 - (100 / (1 + rs))                                *)
RsiValue(gain, loss) ==
    RSub(Rat(100, 1), RDiv(Rat(100, 1), RAdd(Rat(1, 1), RDiv(gain, loss))))

rsi(df, period) ==
    LET xs == Closes(df)
        gains == [i \in 1..Len(df) |-> GainAt(xs, i)]
        losses == [i \in 1..Len(df) |-> LossAt(xs, i)]
    IN  [i \in 1..Len(df) |->
            [gain |-> RollingMean(gains, i, period),
             loss |-> RollingMean(losses, i, period),
             rsi |-> RsiValue(RollingMean(gains, i, period),
                              RollingMean(losses, i, period))]]

(* stochastic_oscillator(period)                                           *)
RECURSIVE MinRange(_, _, _)
MinRange(xs, lo, hi) ==
    IF lo = hi THEN xs[hi] ELSE Min2(xs[hi], MinRange(xs, lo, hi - 1))

RECURSIVE MaxRange(_, _, _)
MaxRange(xs, lo, hi) ==
    IF lo = hi THEN xs[hi]
    ELSE LET r == MaxRange(xs, lo, hi - 1) IN IF xs[hi] >= r THEN xs[hi] ELSE r

KLine(df, i, period) ==
    IF i < period THEN RNaN
    ELSE LET low_min == MinRange([j \in 1..Len(df) |-> df[j].low], i - period + 1, i)
             high_max == MaxRange([j \in 1..Len(df) |-> df[j].high], i - period + 1, i)
         IN  RMulInt(100, RDiv(Rat(df[i].close - low_min, 1),
                               Rat(high_max - low_min, 1)))

(* k.rolling(3).mean(): NaN until three values that are not NaN are in     *)
(* the window.                                                             *)
DLine(df, i, period) ==
    IF i < d_window \/ \E j \in (i - d_window + 1)..i : KLine(df, j, period).kind = "nan"
    THEN RNaN
    ELSE RDiv(RAdd(RAdd(KLine(df, i - 2, period), KLine(df, i - 1, period)),
                   KLine(df, i, period)),
              Rat(d_window, 1))

stochastic_oscillator(df, period) ==
    [i \in 1..Len(df) |->
        [k_line |-> KLine(df, i, period), d_line |-> DLine(df, i, period)]]

---------------------------------------------------------------------------
(* The frames the object is built on.  DataLoader.load_data keeps the rows *)
(* of a file in file order and checks no price: a frame is any sequence of *)
(* bars with numeric prices.  The frames enumerated here end on EndDates,  *)
(* hold one bar every Strides days, and alternate two bar shapes around a  *)
(* close that alternates between base and base + amp.                      *)
Bar(d, o, h, l, c) == [date |-> d, open |-> o, high |-> h, low |-> l, close |-> c]

Shapes == {"flat", "up", "down", "both", "open_up", "open_down"}

Shaped(d, c, shape, u) ==
    CASE shape = "flat" -> Bar(d, c, c, c, c)
      [] shape = "up" -> Bar(d, c, c + u, c, c)
      [] shape = "down" -> Bar(d, c, c, c - u, c)
      [] shape = "both" -> Bar(d, c, c + u, c - u, c)
      [] shape = "open_up" -> Bar(d, c + u, c, c, c)
      [] shape = "open_down" -> Bar(d, c - u, c, c, c)

EndDates == {20240331, 20240430, 20230430}
Strides == {3, 15}
Bases == {-2, 0, 5}
Amps == {0, 2}
Steps == {0, 1}
Spikes == {3}
Orders == {"asc", "desc"}
Lengths == {0, 1, window - 1} \cup (window..MaxBars)

(* Bar i of n by date: the close steps up by step after the first window   *)
(* bars.                                                                   *)
CloseAt(i, base, amp, step) ==
    base + amp * (i % 2) + (IF i > window THEN step ELSE 0)

Ascending(n, last, stride, base, amp, step, u, shapeA, shapeB) ==
    [i \in 1..n |->
        Shaped(DatesBack(last, stride, n)[i], CloseAt(i, base, amp, step),
               IF i % 2 = 1 THEN shapeA ELSE shapeB, u)]

Reverse(xs) == [i \in 1..Len(xs) |-> xs[Len(xs) + 1 - i]]

Frames ==
    {IF order = "asc"
     THEN Ascending(n, last, stride, base, amp, step, u, shapeA, shapeB)
     ELSE Reverse(Ascending(n, last, stride, base, amp, step, u, shapeA, shapeB)) :
        n \in Lengths, last \in EndDates, stride \in Strides, base \in Bases,
        amp \in Amps, step \in Steps, u \in Spikes, shapeA \in Shapes,
        shapeB \in {"flat", "both"}, order \in Orders}

(* No directory has been scanned.                                          *)
NoTree == [n |-> 0, parent |-> << >>, stock |-> << >>, has_file |-> << >>,
           root_file |-> FALSE]

LoaderIdle ==
    /\ tree = NoTree
    /\ stock_dirs = << >>
    /\ data_files = << >>

(* No run of the monitor: the object is used on its own.                   *)
MonitorIdle ==
    /\ pc = "idle"
    /\ files = << >>
    /\ log_level = 1
    /\ file_idx = 1
    /\ total_files = 0
    /\ files_processed = 0
    /\ files_with_errors = 0
    /\ crossing_details = << >>
    /\ log = << >>

(* TechnicalIndicators(data)                                               *)
Constructed(df) ==
    /\ data = df
    /\ called = "none"
    /\ months = 0
    /\ cutoff_date = 0
    /\ recent_data = << >>
    /\ recent_bb = << >>
    /\ events = << >>
    /\ result = << >>
    /\ raised = "none"

Init == (\E df \in Frames : Constructed(df)) /\ MonitorIdle /\ LoaderIdle

Returns(name, value) ==
    /\ called = "none"
    /\ called' = name
    /\ result' = value
    /\ raised' = "none"
    /\ UNCHANGED <<data, months, cutoff_date, recent_data, recent_bb, events>>
    /\ UNCHANGED monitorVars
    /\ UNCHANGED loaderVars

Sma == Returns("sma", sma(data, ma_period))

Ema == Returns("ema", ema(data, ma_period))

Rsi == Returns("rsi", rsi(data, rsi_period))

Macd == Returns("macd", macd(data))

BollingerBands == Returns("bollinger_bands", bollinger_bands(data, window, std_dev))

StochasticOscillator ==
    Returns("stochastic_oscillator", stochastic_oscillator(data, stoch_period))

CheckRecentBBCrossings ==
    /\ called = "none"
    /\ \E m \in 0..MaxMonths :
        LET r == check_recent_bb_crossings(data, m)
        IN  /\ called' = "check_recent_bb_crossings"
            /\ months' = m
            /\ cutoff_date' = r.cutoff_date
            /\ recent_data' = r.recent_data
            /\ recent_bb' = r.recent_bb
            /\ events' = r.events
            /\ raised' = r.raised
    /\ UNCHANGED <<data, result>>
    /\ UNCHANGED monitorVars
    /\ UNCHANGED loaderVars

Next ==
    \/ Sma
    \/ Ema
    \/ Rsi
    \/ Macd
    \/ BollingerBands
    \/ StochasticOscillator
    \/ CheckRecentBBCrossings

Spec == Init /\ [][Next]_vars

---------------------------------------------------------------------------
(* Frames of consecutive daily bars that are constant but for one bar      *)
(* whose close and high lie d above the level.                             *)
ScenarioBars == 30
Levels == {5, 100}
Outliers == {1, 2, 50}
ScenarioLengths == {window, ScenarioBars - 1, ScenarioBars}

OutlierFrame(n, last, level, d, day) ==
    [i \in 1..n |->
        IF i = day
        THEN Bar(DatesBack(last, 1, n)[i], level, level + d, level, level + d)
        ELSE Bar(DatesBack(last, 1, n)[i], level, level, level, level)]

OutlierInit ==
    /\ \E n \in ScenarioLengths, last \in {20240430, 20240331}, level \in Levels,
          d \in Outliers :
          \E day \in 1..n : Constructed(OutlierFrame(n, last, level, d, day))
    /\ MonitorIdle
    /\ LoaderIdle

SpecOutlier == OutlierInit /\ [][Next]_vars

---------------------------------------------------------------------------
(* monitor_bollinger_bands: one pass over loader.data_files.               *)
(*                                                                         *)
(* A data file holds no rows ("empty"), rows whose prices are not numbers  *)
(* ("text"), or a frame of numeric bars.  The symbol of a file is its      *)
(* stem, here its position in data_files.                                  *)
lookback_months == 2
progress_every == 5
MaxFiles == 5

Contents == {"empty", "text", "quiet", "crossing", "reversal"}

QuietFrame == Ascending(window - 1, 20240430, 3, 5, 0, 0, 3, "both", "flat")

CrossingFrame == Ascending(window + 1, 20240430, 3, 5, 0, 0, 3, "both", "down")

ReversalFrame == Ascending(window + 1, 20240430, 3, 5, 0, 0, 3, "up", "down")

CrossingFrameEvents == Crossings(CrossingFrame, lookback_months, std_dev).events

(* DataLoader.load_data: raises on a file without rows.                    *)
load_data(content) ==
    IF content = "empty"
    THEN [raised |-> "ValueError", numeric |-> FALSE, bars |-> << >>]
    ELSE [raised |-> "none", numeric |-> content # "text",
          bars |-> IF content = "quiet" THEN QuietFrame
                   ELSE IF content = "reversal" THEN ReversalFrame
                   ELSE CrossingFrame]

(* The body of the inner try: the indicators, then the detector.  A column *)
(* that holds no numbers makes the first rolling mean raise.               *)
Analysis(loaded) ==
    IF ~loaded.numeric
    THEN [raised |-> "DataError", events |-> << >>]
    ELSE LET r == check_recent_bb_crossings(loaded.bars, lookback_months)
         IN  [raised |-> r.raised, events |-> r.events]

(* What loading and analysing a file gives, by what the file holds: the    *)
(* two functions above, tabulated.                                         *)
Loaded == [c \in Contents |-> load_data(c)]

Analysed == [c \in Contents |-> Analysis(load_data(c))]

(* crossing_details[symbol] = events                                       *)
Put(cd, symbol, evs) ==
    IF \E k \in 1..Len(cd) : cd[k].symbol = symbol
    THEN [k \in 1..Len(cd) |->
             IF cd[k].symbol = symbol THEN [symbol |-> symbol, events |-> evs]
                                      ELSE cd[k]]
    ELSE Append(cd, [symbol |-> symbol, events |-> evs])

(* sorted(events, key=date): ascending by date, stable.                    *)
RECURSIVE InsertAsc(_, _)
InsertAsc(sorted, e) ==
    IF sorted = << >> THEN <<e>>
    ELSE IF Head(sorted).date <= e.date
         THEN <<Head(sorted)>> \o InsertAsc(Tail(sorted), e)
         ELSE <<e>> \o sorted

RECURSIVE SortAscFrom(_, _, _)
SortAscFrom(evs, i, acc) ==
    IF i > Len(evs) THEN acc ELSE SortAscFrom(evs, i + 1, InsertAsc(acc, evs[i]))

SortedAsIs(evs) == evs

SortByDateAsc(evs) == SortAscFrom(evs, 1, << >>)

(* 'up' if 'Above' in event['type'] else 'down', over the sorted events.   *)
CrossingSequence(evs) ==
    LET sorted_events == SortByDateAsc(evs)
    IN  [k \in 1..Len(sorted_events) |->
            IF sorted_events[k].type = "Above upper band" THEN "up" ELSE "down"]

(* The lines of the crossing summary, by log level.                        *)
CrossingLines(cd, level) ==
    [k \in 1..Len(cd) |->
        IF level = 1
        THEN [msg |-> "sequence", symbol |-> cd[k].symbol,
              sequence |-> CrossingSequence(cd[k].events)]
        ELSE [msg |-> "events", symbol |-> cd[k].symbol,
              listing |-> [j \in 1..Len(cd[k].events) |->
                              IF level = 2
                              THEN [date |-> cd[k].events[j].date,
                                    type |-> cd[k].events[j].type]
                              ELSE cd[k].events[j]]]]

(* The progress lines of one pass of the loop, before the analysis.        *)
ProgressLines(symbol, processed, total, level) ==
    IF level = 1
    THEN (IF processed % progress_every = 0 \/ processed = total
          THEN << [msg |-> "progress", processed |-> processed, total |-> total] >>
          ELSE << >>)
    ELSE << [msg |-> "analyzing", symbol |-> symbol, processed |-> processed,
             total |-> total] >>
         \o (IF level = 3 THEN << [msg |-> "overview", symbol |-> symbol] >>
                          ELSE << >>)

(* load_all_data: where the generator goes after a file that failed to     *)
(* load (except ... continue).                                             *)
AfterLoadErrorStop(idx) == Len(files) + 1

AfterLoadError(idx) == idx + 1

(* loader = DataLoader(...); total_files = len(loader.data_files)          *)
MonitorStart ==
    /\ pc = "start"
    /\ total_files' = Len(files)
    /\ log' = Append(log, [msg |-> "starting", total |-> Len(files)])
    /\ pc' = "loop"
    /\ UNCHANGED <<files, log_level, file_idx, files_processed, files_with_errors,
                   crossing_details>>
    /\ UNCHANGED tiVars
    /\ UNCHANGED loaderVars

(* load_all_data on a file whose load_data raises: load_data logs the      *)
(* error, the generator prints it and goes on with the next file.          *)
LoadFails ==
    /\ pc = "loop"
    /\ file_idx <= Len(files)
    /\ Loaded[files[file_idx]].raised # "none"
    /\ log' = Append(log, [msg |-> "load_error", file |-> file_idx])
    /\ file_idx' = AfterLoadError(file_idx)
    /\ UNCHANGED <<pc, files, log_level, total_files, files_processed,
                   files_with_errors, crossing_details>>
    /\ UNCHANGED tiVars
    /\ UNCHANGED loaderVars

(* One pass of the for loop over a file that loads.                        *)
ProcessFile ==
    /\ pc = "loop"
    /\ file_idx <= Len(files)
    /\ Loaded[files[file_idx]].raised = "none"
    /\ LET symbol == file_idx
           a == Analysed[files[file_idx]]
           progress == ProgressLines(symbol, files_processed + 1, total_files,
                                     log_level)
       IN  /\ files_processed' = files_processed + 1
           /\ IF a.raised = "none"
              THEN /\ crossing_details' =
                          (IF a.events # << >>
                           THEN Put(crossing_details, symbol, a.events)
                           ELSE crossing_details)
                   /\ files_with_errors' = files_with_errors
                   /\ log' = log \o progress \o
                          (IF log_level = 3
                           THEN << [msg |-> "bb_crossings", symbol |-> symbol,
                                    events |-> a.events] >>
                           ELSE << >>)
              ELSE /\ files_with_errors' = files_with_errors + 1
                   /\ crossing_details' = crossing_details
                   /\ log' = log \o progress \o
                          (IF log_level >= 2
                           THEN << [msg |-> "analysis_error", symbol |-> symbol] >>
                           ELSE << >>)
    /\ file_idx' = file_idx + 1
    /\ UNCHANGED <<pc, files, log_level, total_files>>
    /\ UNCHANGED tiVars
    /\ UNCHANGED loaderVars

(* After the loop: the summary section.                                    *)
Summary ==
    /\ pc = "loop"
    /\ file_idx > Len(files)
    /\ log' = log
              \o << [msg |-> "summary"] >>
              \o (IF log_level >= 2
                  THEN << [msg |-> "statistics", total |-> total_files,
                           processed |-> files_processed,
                           errors |-> files_with_errors,
                           successful |-> files_processed - files_with_errors] >>
                  ELSE << >>)
              \o (IF crossing_details # << >>
                  THEN CrossingLines(crossing_details, log_level)
                       \o << [msg |-> "total", crossing |-> Len(crossing_details),
                              processed |-> files_processed] >>
                  ELSE << [msg |-> "none_found", processed |-> files_processed] >>)
    /\ pc' = "done"
    /\ UNCHANGED <<files, log_level, file_idx, total_files, files_processed,
                   files_with_errors, crossing_details>>
    /\ UNCHANGED tiVars
    /\ UNCHANGED loaderVars

FileLists == UNION {[1..n -> Contents] : n \in 0..MaxFiles}

MonitorInit ==
    /\ pc = "start"
    /\ files \in FileLists
    /\ log_level \in 1..3
    /\ file_idx = 1
    /\ total_files = 0
    /\ files_processed = 0
    /\ files_with_errors = 0
    /\ crossing_details = << >>
    /\ log = << >>
    /\ Constructed(<< >>)
    /\ LoaderIdle

MonitorNext ==
    \/ MonitorStart
    \/ LoadFails
    \/ ProcessFile
    \/ Summary

(* The run is one sequential call: it keeps taking its next step.          *)
SpecMonitor == MonitorInit /\ [][MonitorNext]_vars /\ WF_vars(MonitorNext)

(* DataLoader(root_dir, file_pattern) raising: setup_logging creates the   *)
(* log directory, writes the README and opens the log file, then           *)
(* _find_data_files walks the tree; any of them may raise.                 *)
LoaderFailures == {"mkdir", "readme", "log_file", "discovery"}

(* except Exception as e: logger.error(...); return.  logger is a local of *)
(* monitor_bollinger_bands, bound only after the loader is constructed:    *)
(* while it is unbound the handler itself raises UnboundLocalError, which  *)
(* leaves the function.                                                    *)
OuterExcept(logger_bound, cause) ==
    IF logger_bound
    THEN [pc |-> "returned", lines |-> << [msg |-> "data_processing_error",
                                           cause |-> cause] >>]
    ELSE [pc |-> "escaped", lines |-> << >>]

(* loader = DataLoader(...) raises, inside the outer try.                  *)
ConstructFails ==
    /\ pc = "start"
    /\ \E cause \in LoaderFailures :
          /\ pc' = OuterExcept(FALSE, cause).pc
          /\ log' = log \o OuterExcept(FALSE, cause).lines
    /\ UNCHANGED <<files, log_level, file_idx, total_files, files_processed,
                   files_with_errors, crossing_details>>
    /\ UNCHANGED tiVars
    /\ UNCHANGED loaderVars

MonitorRunNext ==
    \/ MonitorNext
    \/ ConstructFails

(* Every call of monitor_bollinger_bands, the loader failing or not.       *)
SpecMonitorRun == MonitorInit /\ [][MonitorRunNext]_vars /\ WF_vars(MonitorRunNext)

---------------------------------------------------------------------------
(* DataLoader._find_data_files.  The tree under root_dir: directories      *)
(* 1..n, directory 0 being root_dir itself; parent[i] < i is the directory *)
(* that holds i, stock[i] says that 'stock' is in the lower-cased name of  *)
(* i, has_file[i] that i holds a file matching the pattern (root_file for  *)
(* root_dir).  A file is named by the directory that holds it.             *)
MaxDirs == 3

Trees ==
    {[n |-> n, parent |-> par, stock |-> st, has_file |-> hf, root_file |-> rf] :
        n \in 1..MaxDirs, par \in [1..MaxDirs -> 0..MaxDirs],
        st \in [1..MaxDirs -> BOOLEAN], hf \in [1..MaxDirs -> BOOLEAN],
        rf \in BOOLEAN}

WellFormed(t) ==
    /\ \A i \in 1..t.n : t.parent[i] < i
    /\ \A i \in (t.n + 1)..MaxDirs :
           t.parent[i] = 0 /\ ~t.stock[i] /\ ~t.has_file[i]

(* d.rglob('*') filtered by is_dir(): the directories below d, parents     *)
(* before their children.                                                  *)
RECURSIVE Walk(_, _, _)
Walk(t, d, i) ==
    IF i > t.n THEN << >>
    ELSE IF t.parent[i] = d
         THEN <<i>> \o Walk(t, i, i + 1) \o Walk(t, d, i + 1)
         ELSE Walk(t, d, i + 1)

rglob_dirs(t, d) == Walk(t, d, 1)

(* The first loop: every directory below root_dir whose name holds 'stock' *)
(* is appended, followed by all the directories below it.                  *)
RECURSIVE StockDirsFrom(_, _, _)
StockDirsFrom(t, visited, k) ==
    IF k > Len(visited) THEN << >>
    ELSE (IF t.stock[visited[k]]
          THEN <<visited[k]>> \o rglob_dirs(t, visited[k])
          ELSE << >>)
         \o StockDirsFrom(t, visited, k + 1)

StockDirs(t) == StockDirsFrom(t, rglob_dirs(t, 0), 1)

(* The second loop: the matching files of every listed directory.          *)
GlobFiles(t, dirs) == SelectSeq(dirs, LAMBDA d : t.has_file[d])

find_data_files(t) ==
    [stock_dirs |-> StockDirs(t), data_files |-> GlobFiles(t, StockDirs(t))]

(* DataLoader(root_dir, file_pattern), its scan of the tree.               *)
FindDataFiles ==
    /\ pc = "construct"
    /\ stock_dirs' = find_data_files(tree).stock_dirs
    /\ data_files' = find_data_files(tree).data_files
    /\ pc' = "constructed"
    /\ UNCHANGED tree
    /\ UNCHANGED <<files, log_level, file_idx, total_files, files_processed,
                   files_with_errors, crossing_details, log>>
    /\ UNCHANGED tiVars

FinderInit ==
    /\ tree \in {t \in Trees : WellFormed(t)}
    /\ stock_dirs = << >>
    /\ data_files = << >>
    /\ pc = "construct"
    /\ files = << >>
    /\ log_level = 1
    /\ file_idx = 1
    /\ total_files = 0
    /\ files_processed = 0
    /\ files_with_errors = 0
    /\ crossing_details = << >>
    /\ log = << >>
    /\ Constructed(<< >>)

FinderNext == FindDataFiles

SpecFinder == FinderInit /\ [][FinderNext]_vars

---------------------------------------------------------------------------
(* What the properties below speak of.                                     *)
Above == "Above upper band"
Below == "Below lower band"

Detected == called = "check_recent_bb_crossings" /\ raised = "none"

(* The band values of the bar at position i of the whole frame.            *)
UpperAt(i) == Band(Closes(data), i, window, std_dev)
LowerAt(i) == Band(Closes(data), i, window, 0 - std_dev)

(* The position in the frame of the bar dated d (dates are distinct).      *)
PosOf(d) == CHOOSE i \in 1..Len(data) : data[i].date = d

Exceeds(x, b) == ~b.nan /\ CmpBand(x, b) = 1
Undercuts(x, b) == ~b.nan /\ CmpBand(x, b) = -1
Touches(x, b) == ~b.nan /\ CmpBand(x, b) = 0

CountEvents(d, t) ==
    Cardinality({j \in 1..Len(events) : events[j].date = d /\ events[j].type = t})

InLookback(i) == data[i].date >= cutoff_date

MaxPrice(i) == Max3(data[i].high, data[i].open, data[i].close)
MinPrice(i) == Min3(data[i].low, data[i].open, data[i].close)

(* C1: for every bar inside the lookback window there is exactly one      *)
(* 'Above upper band' event of its date if max(high, open, close) is       *)
(* strictly greater than the upper band of that date and none otherwise,   *)
(* and exactly one 'Below lower band' event if min(low, open, close) is    *)
(* strictly less than the lower band and none otherwise; the two tests are *)
(* independent and a price equal to the band gives no event.               *)
C1_CrossingIff ==
    Detected =>
        \A i \in 1..Len(data) :
            InLookback(i) =>
                /\ CountEvents(data[i].date, Above) =
                       (IF Exceeds(MaxPrice(i), UpperAt(i)) THEN 1 ELSE 0)
                /\ CountEvents(data[i].date, Below) =
                       (IF Undercuts(MinPrice(i), LowerAt(i)) THEN 1 ELSE 0)

(* C1 happens: one run in which a bar yields both events and another bar   *)
(* of the window, whose extreme prices equal its bands, yields none.       *)
C1_Witness ==
    /\ Detected
    /\ \E i \in 1..Len(data) :
          /\ InLookback(i)
          /\ CountEvents(data[i].date, Above) = 1
          /\ CountEvents(data[i].date, Below) = 1
    /\ \E i \in 1..Len(data) :
          /\ InLookback(i)
          /\ Touches(MaxPrice(i), UpperAt(i))
          /\ Touches(MinPrice(i), LowerAt(i))
          /\ CountEvents(data[i].date, Above) = 0
          /\ CountEvents(data[i].date, Below) = 0

(* C2: a bar with fewer than 20 bars of history up to and including it     *)
(* (undefined bands) yields no event, the call on a non-empty frame does   *)
(* not fail, and a non-empty frame of fewer than 20 bars gives the empty   *)
(* list.                                                                   *)
C2_UndefinedBandsNoEvent ==
    (called = "check_recent_bb_crossings" /\ Len(data) > 0) =>
        /\ raised = "none"
        /\ \A i \in 1..Len(data) :
               i < window =>
                   \A j \in 1..Len(events) : events[j].date # data[i].date
        /\ (Len(data) < window => events = << >>)

(* C2 happens: a bar of the lookback window with undefined bands whose     *)
(* high lies above its close, in a run that does report events elsewhere.  *)
C2_Witness ==
    /\ Detected
    /\ events # << >>
    /\ \E i \in 1..Len(data) :
          i < window /\ InLookback(i) /\ data[i].high > data[i].close

(* C3: the returned list is ordered most recent first.                     *)
C3_MostRecentFirst ==
    called = "check_recent_bb_crossings" =>
        \A j \in 1..(Len(events) - 1) : events[j].date >= events[j + 1].date

(* C3 happens: events of at least two dates come out of a frame whose bars *)
(* are in ascending date order.                                            *)
C3_Witness ==
    /\ Detected
    /\ Len(data) > 1
    /\ data[1].date < data[Len(data)].date
    /\ \E j \in 1..(Len(events) - 1) : events[j].date > events[j + 1].date

(* C4: the bars considered are exactly those dated on or after the cutoff, *)
(* the last bar's date moved back by `months` calendar months with the day *)
(* of the month clamped to the length of the target month; no event is     *)
(* dated before the cutoff; a cutoff before the first bar keeps the whole  *)
(* frame.                                                                  *)
LastDate == data[Len(data)].date

MonthIndex(d) == Year(d) * 12 + (Month(d) - 1)

C4_LookbackWindow ==
    Detected =>
        /\ MonthIndex(cutoff_date) = MonthIndex(LastDate) - months
        /\ Month(cutoff_date) \in 1..12
        /\ Day(cutoff_date) \in 1..DaysInMonth(Year(cutoff_date), Month(cutoff_date))
        /\ \/ Day(cutoff_date) = Day(LastDate)
           \/ /\ Day(LastDate) > DaysInMonth(Year(cutoff_date), Month(cutoff_date))
              /\ Day(cutoff_date) = DaysInMonth(Year(cutoff_date), Month(cutoff_date))
        /\ (LastDate = 20240331 /\ months = 2 => cutoff_date = 20240131)
        /\ (LastDate = 20240430 /\ months = 2 => cutoff_date = 20240229)
        /\ (LastDate = 20230430 /\ months = 2 => cutoff_date = 20230228)
        /\ Len(recent_data) = Cardinality({i \in 1..Len(data) : data[i].date >= cutoff_date})
        /\ \A i \in 1..Len(data) :
               data[i].date >= cutoff_date <=>
                   \E j \in 1..Len(recent_data) : recent_data[j] = data[i]
        /\ \A j \in 1..Len(events) : events[j].date >= cutoff_date
        /\ ((\A i \in 1..Len(data) : data[i].date > cutoff_date) => recent_data = data)

(* C4 happens: two months back from April 30 of a leap year, with a bar    *)
(* left out before the cutoff and events reported after it.                *)
C4_Witness ==
    /\ Detected
    /\ months = 2
    /\ LastDate = 20240430
    /\ cutoff_date = 20240229
    /\ Len(recent_data) < Len(data)
    /\ events # << >>

(* C5: the bands tested are those of the 20-bar trailing window over the   *)
(* whole frame, and the sliced bands stay aligned with the sliced bars:    *)
(* row i of the bands carries the date of row i of the bars and the band   *)
(* values of that date, defined whenever at least 19 bars precede it in    *)
(* the frame; every event carries the band of its own date.                *)
C5_BandsAligned ==
    Detected =>
        /\ Len(recent_bb) = Len(recent_data)
        /\ \A i \in 1..Len(recent_data) :
               /\ recent_bb[i].date = recent_data[i].date
               /\ recent_bb[i].BB_Upper = UpperAt(PosOf(recent_data[i].date))
               /\ recent_bb[i].BB_Lower = LowerAt(PosOf(recent_data[i].date))
               /\ (PosOf(recent_data[i].date) >= window =>
                       ~recent_bb[i].BB_Upper.nan /\ ~recent_bb[i].BB_Lower.nan)
        /\ \A j \in 1..Len(events) :
               events[j].band_value =
                   (IF events[j].type = Above THEN UpperAt(PosOf(events[j].date))
                                              ELSE LowerAt(PosOf(events[j].date)))

(* C5 happens: the first bar of a lookback window that leaves out earlier  *)
(* bars has defined bands, which differ from those of the next bar, and    *)
(* an event.                                                               *)
C5_Witness ==
    /\ Detected
    /\ 1 < Len(recent_data)
    /\ Len(recent_data) < Len(data)
    /\ ~recent_bb[1].BB_Upper.nan
    /\ recent_bb[1].BB_Upper # recent_bb[2].BB_Upper
    /\ \E j \in 1..Len(events) : events[j].date = recent_data[1].date

(* C6 as claimed: every event carries the extreme price of its bar and the *)
(* breached band of its date, and its deviation is strictly positive when  *)
(* its type is 'Above upper band' and strictly negative when it is 'Below  *)
(* lower band', for every frame.                                           *)
Positive(dv) == dv.kind \in {"finite", "inf"} /\ dv.sign = 1
Negative(dv) == dv.kind \in {"finite", "inf"} /\ dv.sign = -1

EventOfBar(e) ==
    LET i == PosOf(e.date)
    IN  IF e.type = Above
        THEN e.price = MaxPrice(i) /\ e.band_value = UpperAt(i)
        ELSE e.price = MinPrice(i) /\ e.band_value = LowerAt(i)

C6_DeviationSign ==
    Detected =>
        \A j \in 1..Len(events) :
            /\ EventOfBar(events[j])
            /\ (events[j].type = Above => Positive(events[j].deviation))
            /\ (events[j].type = Below => Negative(events[j].deviation))

(* C6 amended: every event carries the extreme price of its bar and the    *)
(* breached band of its date; its deviation is strictly positive for       *)
(* 'Above upper band' and strictly negative for 'Below lower band'         *)
(* whenever the breached band is not negative, which is so for every frame *)
(* of positive prices; when the breached band is negative the deviation    *)
(* has the opposite sign.                                                  *)
PositivePrices ==
    \A i \in 1..Len(data) :
        data[i].open > 0 /\ data[i].high > 0 /\ data[i].low > 0 /\ data[i].close > 0

C6_DeviationSignByBand ==
    Detected =>
        /\ \A j \in 1..Len(events) :
              /\ EventOfBar(events[j])
              /\ (BandSign(events[j].band_value) >= 0 =>
                     IF events[j].type = Above THEN Positive(events[j].deviation)
                                               ELSE Negative(events[j].deviation))
              /\ (BandSign(events[j].band_value) < 0 =>
                     IF events[j].type = Above THEN Negative(events[j].deviation)
                                               ELSE Positive(events[j].deviation))
        /\ (PositivePrices =>
               \A j \in 1..Len(events) : BandSign(events[j].band_value) > 0)

(* C6 happens: one run reports an 'Above upper band' event over a positive *)
(* band and a 'Below lower band' event under a negative band.              *)
C6_Witness ==
    /\ Detected
    /\ \E j \in 1..Len(events) :
          events[j].type = Above /\ BandSign(events[j].band_value) > 0
    /\ \E j \in 1..Len(events) :
          events[j].type = Below /\ BandSign(events[j].band_value) < 0

(* C7 as claimed: a method fails, with InsufficientDataError, exactly when *)
(* the frame is empty.                                                     *)
C7_InsufficientDataIffEmpty ==
    called # "none" =>
        /\ (Len(data) = 0 => raised = "InsufficientDataError")
        /\ (Len(data) > 0 => raised = "none")

(* C7 amended: on a non-empty frame none of sma, ema, rsi, macd,           *)
(* bollinger_bands, stochastic_oscillator and check_recent_bb_crossings    *)
(* raises; on an empty frame the six indicators return an empty result     *)
(* without raising and check_recent_bb_crossings fails with IndexError.    *)
C7_OnlyDetectorFailsOnEmpty ==
    called # "none" =>
        /\ (Len(data) > 0 => raised = "none")
        /\ (Len(data) = 0 /\ called = "check_recent_bb_crossings" =>
               raised = "IndexError")
        /\ (Len(data) = 0 /\ called # "check_recent_bb_crossings" =>
               raised = "none" /\ result = << >>)

(* C7 happens: the detector has been called on an empty frame.             *)
C7_Witness ==
    /\ called = "check_recent_bb_crossings"
    /\ Len(data) = 0
    /\ raised = "IndexError"
    /\ events = << >>

(* C9: every (date, type) detected with bands of std_dev + 1 = 4 standard  *)
(* deviations is detected with the 3 of the code, so the wider bands never *)
(* give more events.                                                       *)
WiderEvents == Crossings(data, months, std_dev + 1).events

C9_WiderBandsFewerEvents ==
    Detected =>
        /\ Len(WiderEvents) <= Len(events)
        /\ \A j \in 1..Len(WiderEvents) :
               \E k \in 1..Len(events) :
                   /\ events[k].date = WiderEvents[j].date
                   /\ events[k].type = WiderEvents[j].type

(* C9 happens: some crossings of the 3-sigma bands stay inside the 4-sigma *)
(* bands and others cross both.                                            *)
C9_Witness ==
    /\ Detected
    /\ 0 < Len(WiderEvents)
    /\ Len(WiderEvents) < Len(events)

(* C10 as claimed, for frames of positive prices: rsi raises nothing, lies *)
(* in [0, 100] wherever the trailing average loss is positive, and on a    *)
(* frame whose closes never decrease (a flat one included) is 100 at every *)
(* bar where the trailing averages exist.                                  *)
NonDecreasing(xs) == \A i \in 1..(Len(xs) - 1) : xs[i] <= xs[i + 1]

C10_RsiPolicy ==
    (called = "rsi" /\ PositivePrices) =>
        /\ raised = "none"
        /\ \A i \in 1..Len(result) :
               (result[i].loss.kind = "num" /\ result[i].loss.num > 0) =>
                   RGeqInt(result[i].rsi, 0) /\ RLeqInt(result[i].rsi, 100)
        /\ (NonDecreasing(Closes(data)) =>
               \A i \in 1..Len(result) :
                   result[i].loss.kind = "num" => REqInt(result[i].rsi, 100))

(* What rsi does instead: with a zero average loss it is 100 where the     *)
(* average gain is positive and NaN where the average gain is zero too.    *)
C10_CodeBehaviour ==
    called = "rsi" =>
        /\ raised = "none"
        /\ \A i \in 1..Len(result) :
               /\ (result[i].loss.kind = "num" /\ result[i].loss.num > 0) =>
                      RGeqInt(result[i].rsi, 0) /\ RLeqInt(result[i].rsi, 100)
               /\ (result[i].loss.kind = "num" /\ result[i].loss.num = 0) =>
                      IF result[i].gain.num > 0 THEN REqInt(result[i].rsi, 100)
                                                ELSE result[i].rsi.kind = "nan"

(* C11 as claimed, for frames of positive prices: rsi(period) is undefined *)
(* at each of the first period bars, the first delta not being counted as  *)
(* a zero gain or loss, and the trailing averages exist from the bar after *)
(* them onward.                                                            *)
C11_RsiWarmup ==
    (called = "rsi" /\ PositivePrices) =>
        \A i \in 1..Len(result) :
            IF i <= rsi_period
            THEN result[i].rsi.kind = "nan"
            ELSE /\ result[i].gain.kind = "num"
                 /\ result[i].loss.kind = "num"

(* What rsi does instead: the missing first delta is replaced by 0 in both *)
(* the gain and the loss column, so the trailing averages exist from bar   *)
(* number period (index period - 1) onward, one bar early.                 *)
C11_CodeBehaviour ==
    called = "rsi" =>
        \A i \in 1..Len(result) :
            IF i < rsi_period
            THEN /\ result[i].gain.kind = "nan"
                 /\ result[i].loss.kind = "nan"
                 /\ result[i].rsi.kind = "nan"
            ELSE /\ result[i].gain.kind = "num"
                 /\ result[i].loss.kind = "num"
                 /\ (i = rsi_period =>
                        result[i].gain.num =
                            SumRange([j \in 1..Len(data) |->
                                         GainAt(Closes(data), j)], 2, rsi_period))

(* C12: on a frame of consecutive daily bars that is constant but for one  *)
(* bar whose close and high are higher by d > 0, the detector returns      *)
(* exactly one event, 'Above upper band' on the outlier's own date, when   *)
(* that bar has a full window of 20 bars and lies inside the lookback, and *)
(* no event otherwise; in particular never a 'Below lower band' event.     *)
(* With 30 bars at 100, the outlier 150 on day 28 and a lookback of two    *)
(* months, that is one event dated day 28.                                 *)
OutlierDay == CHOOSE i \in 1..Len(data) : data[i].high > data[i].open

C12_SingleOutlierAbove ==
    called = "check_recent_bb_crossings" =>
        /\ raised = "none"
        /\ \A j \in 1..Len(events) : events[j].type # Below
        /\ IF OutlierDay >= window /\ InLookback(OutlierDay)
           THEN /\ Len(events) = 1
                /\ events[1].type = Above
                /\ events[1].date = data[OutlierDay].date
                /\ events[1].price = data[OutlierDay].high
           ELSE events = << >>

(* C12 happens: the 30-bar scenario of the claim has been analysed.        *)
C12_Witness ==
    /\ called = "check_recent_bb_crossings"
    /\ months = lookback_months
    /\ Len(data) = 30
    /\ \A i \in 1..30 : data[i].open = 100 /\ data[i].low = 100
    /\ \A i \in (1..30) \ {28} : data[i].close = 100 /\ data[i].high = 100
    /\ data[28].close = 150 /\ data[28].high = 150
    /\ Len(events) = 1
    /\ events[1].type = Above
    /\ events[1].date = data[28].date

(* C13: at log level 1, once the summary is logged, every symbol of        *)
(* crossing_details has exactly one sequence line; the line holds one      *)
(* direction per stored event, 'up' for 'Above upper band' and 'down' for  *)
(* 'Below lower band', in an order of non-decreasing dates (the reverse of *)
(* the stored order when the dates are distinct); the stored list is what  *)
(* the detector returned, most recent first.                               *)
Direction(e) == IF e.type = Above THEN "up" ELSE "down"

SequenceLines(symbol) ==
    SelectSeq(log, LAMBDA l : l.msg = "sequence" /\ l.symbol = symbol)

Orderings(n) ==
    {f \in [1..n -> 1..n] : \A a, b \in 1..n : a # b => f[a] # f[b]}

DistinctDates(evs) ==
    \A a, b \in 1..Len(evs) : a # b => evs[a].date # evs[b].date

C13_SequenceAscending ==
    (pc = "done" /\ log_level = 1) =>
        \A k \in 1..Len(crossing_details) :
            LET evs == crossing_details[k].events
                ls == SequenceLines(crossing_details[k].symbol)
            IN  /\ Len(ls) = 1
                /\ Len(ls[1].sequence) = Len(evs)
                /\ \E f \in Orderings(Len(evs)) :
                       /\ \A a \in 1..(Len(evs) - 1) :
                              evs[f[a]].date <= evs[f[a + 1]].date
                       /\ \A a \in 1..Len(evs) :
                              ls[1].sequence[a] = Direction(evs[f[a]])
                /\ (DistinctDates(evs) =>
                       \A a \in 1..Len(evs) :
                           ls[1].sequence[a] = Direction(evs[Len(evs) + 1 - a]))
                /\ evs = Analysed[files[crossing_details[k].symbol]].events
                /\ \A a \in 1..(Len(evs) - 1) : evs[a].date >= evs[a + 1].date

(* C13 happens: a summary at level 1 holds the line of a symbol with       *)
(* events of both types on more than one date, two of them on one date,    *)
(* and the line of a symbol whose events have distinct dates.              *)
C13_Witness ==
    /\ pc = "done"
    /\ log_level = 1
    /\ \E k \in 1..Len(crossing_details) :
           LET evs == crossing_details[k].events
               ls == SequenceLines(crossing_details[k].symbol)
           IN  /\ \E a, b \in 1..Len(evs) :
                      evs[a].type # evs[b].type /\ evs[a].date > evs[b].date
               /\ Len(ls) = 1
               /\ ls[1].sequence = <<"down", "up", "down">>
    /\ \E k \in 1..Len(crossing_details) :
           LET evs == crossing_details[k].events
               ls == SequenceLines(crossing_details[k].symbol)
           IN  /\ DistinctDates(evs)
               /\ Len(ls) = 1
               /\ ls[1].sequence = <<"down", "up">>

(* C14 as claimed: at log level 1, in a run over at least one discovered   *)
(* file (here: one that processed a file), a progress line is logged after *)
(* every 5th processed file, and the last progress line before the summary *)
(* reports files_processed = total_files, also when some discovered files  *)
(* fail to load.                                                           *)
ProgressLog == SelectSeq(log, LAMBDA l : l.msg = "progress")

C14_ProgressCompletes ==
    (pc = "done" /\ log_level = 1 /\ total_files >= 1 /\ files_processed >= 1) =>
        /\ \A p \in 1..files_processed :
               p % progress_every = 0 =>
                   \E n \in 1..Len(ProgressLog) : ProgressLog[n].processed = p
        /\ Len(ProgressLog) >= 1
        /\ ProgressLog[Len(ProgressLog)].processed = total_files
        /\ ProgressLog[Len(ProgressLog)].total = total_files

(* What the loop does instead: files_processed counts the files that       *)
(* loaded, total_files the files discovered, so the progress lines are     *)
(* those of the counts p <= files_processed with p a multiple of 5 or      *)
(* p = total_files, and the line of total_files is logged only when every  *)
(* discovered file loads.                                                  *)
C14_CodeBehaviour ==
    (pc = "done" /\ log_level = 1) =>
        /\ \A n \in 1..Len(ProgressLog) :
               /\ ProgressLog[n].processed \in 1..files_processed
               /\ ProgressLog[n].total = total_files
               /\ \/ ProgressLog[n].processed % progress_every = 0
                  \/ ProgressLog[n].processed = total_files
               /\ n > 1 => ProgressLog[n - 1].processed < ProgressLog[n].processed
        /\ \A p \in 1..files_processed :
               (p % progress_every = 0 \/ p = total_files) =>
                   \E n \in 1..Len(ProgressLog) : ProgressLog[n].processed = p
        /\ (files_processed < total_files =>
               \A n \in 1..Len(ProgressLog) :
                   ProgressLog[n].processed # total_files)

(* C15 as claimed: no exception leaves monitor_bollinger_bands; a failure  *)
(* inside the outer try, a failure of the DataLoader constructor included, *)
(* is reported through the logger and the function returns.                *)
C15_NoExceptionEscapes ==
    /\ pc # "escaped"
    /\ (pc = "returned" =>
           \E n \in 1..Len(log) : log[n].msg = "data_processing_error")

(* What the function does instead: when the constructor raises nothing has *)
(* been logged and the exception of the handler escapes; a run whose       *)
(* loader was constructed never ends that way.                             *)
C15_CodeBehaviour ==
    /\ (pc = "escaped" => log = << >> /\ total_files = 0)
    /\ (total_files > 0 => pc \in {"loop", "done"})
    /\ pc # "returned"

(* C16 as claimed: _find_data_files lists a matching file exactly once     *)
(* when it lies in a directory below root_dir whose name holds 'stock' or  *)
(* in a directory below such a directory, and never otherwise, so that     *)
(* len(data_files) is the number of such files; also when 'stock'          *)
(* directories are nested.                                                 *)
RECURSIVE StockAncestors(_, _)
StockAncestors(t, d) ==
    IF d = 0 THEN 0
    ELSE (IF t.stock[d] THEN 1 ELSE 0) + StockAncestors(t, t.parent[d])

Listed(d) ==
    Cardinality({k \in 1..Len(data_files) : data_files[k] = d})

C16_EachFileOnce ==
    pc = "constructed" =>
        /\ \A d \in 1..tree.n :
               Listed(d) = IF tree.has_file[d] /\ StockAncestors(tree, d) > 0
                           THEN 1 ELSE 0
        /\ Listed(0) = 0
        /\ Len(data_files) =
               Cardinality({d \in 1..tree.n :
                               tree.has_file[d] /\ StockAncestors(tree, d) > 0})

(* What _find_data_files does instead: a matching file is listed once for  *)
(* every directory on its path below root_dir, its own directory included, *)
(* whose name holds 'stock'; files directly in root_dir are never listed.  *)
C16_CodeBehaviour ==
    pc = "constructed" =>
        /\ \A d \in 1..tree.n :
               Listed(d) = IF tree.has_file[d] THEN StockAncestors(tree, d) ELSE 0
        /\ Listed(0) = 0

(* C8: a file that fails to load or whose analysis raises does not stop    *)
(* the run.  When the run is over every file that loads has been           *)
(* processed, the crossings of every file whose analysis succeeded are     *)
(* recorded under its symbol (and nothing else is), the summary has been   *)
(* logged, and files_with_errors counts the files whose analysis raised;   *)
(* and every run gets there.                                               *)
Loads(i) == files[i] # "empty"
AnalysisRaises(i) == files[i] = "text"

RunOver ==
    pc = "done" =>
        /\ files_processed = Cardinality({i \in 1..Len(files) : Loads(i)})
        /\ files_with_errors =
               Cardinality({i \in 1..Len(files) : Loads(i) /\ AnalysisRaises(i)})
        /\ \A i \in 1..Len(files) :
               files[i] \in {"crossing", "reversal"} =>
                   \E k \in 1..Len(crossing_details) :
                       /\ crossing_details[k].symbol = i
                       /\ crossing_details[k].events # << >>
                       /\ crossing_details[k].events = Analysed[files[i]].events
        /\ \A k \in 1..Len(crossing_details) :
               /\ crossing_details[k].symbol \in 1..Len(files)
               /\ files[crossing_details[k].symbol] \in {"crossing", "reversal"}
        /\ \E n \in 1..Len(log) : log[n].msg = "summary"

C8_FailuresIsolated == []RunOver /\ <>(pc = "done")

(* C8 happens: a run in which a file fails to load, a later one raises in  *)
(* the analysis, and a file after both has its crossings recorded.         *)
C8_Witness ==
    /\ pc = "done"
    /\ \E i, j, k \in 1..Len(files) :
          /\ i < j /\ j < k
          /\ files[i] = "empty"
          /\ files[j] = "text"
          /\ files[k] = "crossing"
          /\ \E n \in 1..Len(crossing_details) : crossing_details[n].symbol = k
    /\ files_with_errors > 0

====
